---- MODULE Spec2Model ----
(***************************************************************************)
(* Model of the silent-disco listening-loop controller                     *)
(* (src/app_integrated.py, class SilentDiscoApp), of the snippet state     *)
(* machine (src/models/snippet.py) and of the web control surface          *)
(* (src/web_server.py).                                                    *)
(*                                                                         *)
(* Every loop thread is a process with a program counter pc[t]; the        *)
(* control operations run on request-handler threads and interleave with   *)
(* the loop threads between any two of the loop's steps.  The blocking     *)
(* collaborator calls (capture, recognition, search, playback) are the     *)
(* points at which a loop thread can be preempted; their outcomes are      *)
(* chosen nondeterministically.                                            *)
(*                                                                         *)
(* Three objects are also followed on their own, each under its own        *)
(* specification: a Snippet under every sequence of calls of its methods   *)
(* (SpecSnippet), the arguments of the controller's start_playback call    *)
(* (SpecPlayback), and a SpotifyService (src/services/spotify_service.py)  *)
(* with its device cache over time (SpecService).                          *)
(***************************************************************************)
EXTENDS Integers, Sequences, FiniteSets, TLC

\* ------------------------------------------------------------------ bounds
MaxThreads == 2      \* loop threads that can exist at the same time
SleepTime  == 2      \* interval_duration - snippet_duration (seconds)
NumTracks  == 2      \* distinct track strings the recogniser can return
MaxLoops   == 2      \* largest total_loops a time-limited run is given
MaxMs      == 3      \* largest track duration and playback offset (ms)
NumDevices == 3      \* devices the music service can list
MaxTicks   == 4      \* clock ticks the device cache is followed for
MaxChunks  == 2      \* buffers one record_audio call reads at most
MaxQueue   == 8      \* length the queue list is followed to

\* ------------------------------------------------------- program constants
RecentWindow == 5    \* self.queue[-5:]
DeviceCacheTtl == 300    \* self._device_cache_ttl (seconds)

Threads == 1..MaxThreads
Tracks  == 1..NumTracks
NoLimit == -1        \* total_loops is None

\* --------------------------------------------------------- snippet model
\* SnippetState values; a snippet is [state, track_string, has_info]
SnippetStates ==
    {"created", "recorded", "recognized", "unrecognized",
     "queueable", "queued", "failed"}

NoTrack == 0             \* track_string is None
UnrecognizedStr == -2    \* the literal string "unrecognized"

NewSnippet == [state |-> "created", track_string |-> NoTrack, has_info |-> FALSE]

mark_recorded(s) ==
    IF s.state = "created" THEN [s EXCEPT !.state = "recorded"] ELSE s

mark_recognized(s, track) ==
    IF s.state = "recorded"
    THEN [s EXCEPT !.state = "recognized", !.track_string = track]
    ELSE s

mark_unrecognized(s) ==
    IF s.state = "recorded"
    THEN [s EXCEPT !.state = "unrecognized", !.track_string = UnrecognizedStr]
    ELSE s

\* mark_queueable without its guard
mark_queueable_unguarded(s) == [s EXCEPT !.state = "queueable"]

mark_queueable(s) ==
    IF s.state = "recognized" THEN [s EXCEPT !.state = "queueable"] ELSE s

\* mark_queued that accepts RECOGNIZED as well
mark_queued_from_recognized(s) ==
    IF s.state \in {"recognized", "queueable"}
    THEN [s EXCEPT !.state = "queued"]
    ELSE s

mark_queued(s) ==
    IF s.state = "queueable" THEN [s EXCEPT !.state = "queued"] ELSE s

\* mark_failed that leaves UNRECOGNIZED and QUEUED alone
mark_failed_guarded(s) ==
    IF s.state \in {"unrecognized", "queued"}
    THEN s
    ELSE [s EXCEPT !.state = "failed"]

mark_failed(s) == [s EXCEPT !.state = "failed"]

\* The keyword parameters set_spotify_info declares, and the keyword
\* arguments the controller passes at its call site.
SetSpotifyInfoParams ==
    {"song_id", "song_uri", "song_name", "song_artist", "duration_ms"}

SearchHitKwargs ==
    {"song_id", "song_uri", "song_name", "song_artist", "duration_ms",
     "album_art_url"}

\* A Python call with a keyword the function does not declare raises
\* TypeError before the body runs.
set_spotify_info(s, kwargs) ==
    IF kwargs \subseteq SetSpotifyInfoParams
    THEN [raised |-> FALSE, snip |-> [s EXCEPT !.has_info = TRUE]]
    ELSE [raised |-> TRUE, snip |-> s]

\* _cleanup_snippet_file: the file is removed when it exists.  exists is
\* whether the file is there after the call, removes the number of
\* os.remove calls made.
cleanup_snippet_file(exists) ==
    [exists |-> FALSE, removes |-> IF exists THEN 1 ELSE 0]

\* ----------------------------------------------------- playback request
\* config.app_config as far as the playback request can depend on it
Configs ==
    [playback_offset_ms : 0..MaxMs, volume_preview : {0, 40, 100}]

Max(a, b) == IF a >= b THEN a ELSE b

\* start_playback_args with the configured preview volume as the volume
start_playback_args_preview(track, device_id, duration_ms, cfg) ==
    [track_uri |-> track, device_id |-> device_id,
     position_ms |-> Max(0, duration_ms - cfg.playback_offset_ms),
     volume |-> cfg.volume_preview]

\* start_playback_args with the position left at duration minus offset
start_playback_args_unclamped(track, device_id, duration_ms, cfg) ==
    [track_uri |-> track, device_id |-> device_id,
     position_ms |-> duration_ms - cfg.playback_offset_ms,
     volume |-> 0]

\* The arguments of the controller's start_playback call for a found
\* track of duration duration_ms on the resolved device
start_playback_args(track, device_id, duration_ms, cfg) ==
    [track_uri |-> track, device_id |-> device_id,
     position_ms |-> Max(0, duration_ms - cfg.playback_offset_ms),
     volume |-> 0]

\* ------------------------------------------------------- music service
NoDevice == 0        \* device id None
NoName == <<>>       \* device name None
TickSeconds == 100   \* seconds of time.time() between two clock readings

DeviceIds == 1..NumDevices

\* Device names are strings, here sequences of characters 1..NumDevices:
\* an odd device i is named "i", an even one "(i-1)i", so that the name of
\* device 1 is contained in the name of device 2.
DeviceName(i) == IF i % 2 = 0 THEN <<i - 1, i>> ELSE <<i>>

\* The values of config.app_config.preferred_device_name: '' (the default),
\* one character of a device name, or a character no device name has
PreferredNames == {<<>>, <<0>>} \cup {<<i>> : i \in DeviceIds}

\* preferred_name in name (Python substring test)
Contains(p, n) ==
    \E k \in 0..(Len(n) - Len(p)) : SubSeq(n, k + 1, k + Len(p)) = p

\* The answers of client.devices(): the devices present, in the order of
\* their ids, each with or without volume control, at most one of them the
\* active device
Listings ==
    {LET ids == SelectSeq([i \in DeviceIds |-> i],
                          LAMBDA i : f[i] # "absent")
     IN  [k \in 1..Len(ids) |->
            [id |-> ids[k], name |-> DeviceName(ids[k]),
             is_active |-> (ids[k] = a),
             supports_volume |-> (f[ids[k]] = "volume")]] :
       f \in [DeviceIds -> {"absent", "volume", "no_volume"}],
       a \in {NoDevice} \cup DeviceIds}

\* What the Web API does during one get_and_activate_device call
ApiInputs ==
    [devices : Listings, devices_raises : {FALSE},
     transfer_raises : BOOLEAN]
       \cup [devices : {<<>>}, devices_raises : {TRUE},
             transfer_raises : {FALSE}]

EmptyCache == [id |-> NoDevice, name |-> NoName, time |-> 0]

\* _is_device_cache_valid with <= in place of <
is_device_cache_valid_inclusive(c, now) ==
    IF c.id = NoDevice THEN FALSE ELSE now - c.time <= DeviceCacheTtl

\* _is_device_cache_valid: c is the cache, now is time.time()
is_device_cache_valid(c, now) ==
    IF c.id = NoDevice THEN FALSE ELSE now - c.time < DeviceCacheTtl

\* choose_device with the active device ahead of the preferred one
choose_device_active_first(volume_devices, preferred_name) ==
    LET matches == SelectSeq(volume_devices,
                             LAMBDA d : Contains(preferred_name, d.name))
        actives == SelectSeq(volume_devices, LAMBDA d : d.is_active)
    IN  IF actives # <<>>
        THEN [device |-> Head(actives), transfer |-> FALSE]
        ELSE IF preferred_name # <<>> /\ matches # <<>>
        THEN [device |-> Head(matches), transfer |-> TRUE]
        ELSE [device |-> Head(volume_devices), transfer |-> TRUE]

\* The choice among the devices with volume control (a non-empty list):
\* the preferred device, which is always activated, else the active device,
\* which is not, else the first one, which is
choose_device(volume_devices, preferred_name) ==
    LET matches == SelectSeq(volume_devices,
                             LAMBDA d : Contains(preferred_name, d.name))
        actives == SelectSeq(volume_devices, LAMBDA d : d.is_active)
    IN  IF preferred_name # <<>> /\ matches # <<>>
        THEN [device |-> Head(matches), transfer |-> TRUE]
        ELSE IF actives # <<>>
        THEN [device |-> Head(actives), transfer |-> FALSE]
        ELSE [device |-> Head(volume_devices), transfer |-> TRUE]

\* get_and_activate_device: c is the cache, now is time.time(), api what the
\* client calls do.  id and name are the pair returned, cache the cache
\* after the call, listed whether client.devices() was called, transfers
\* the devices transfer_playback was called with.
get_and_activate_device(c, now, preferred_name, api) ==
    LET none == [id |-> NoDevice, name |-> NoName, cache |-> c,
                 listed |-> TRUE, transfers |-> <<>>]
        volume_devices ==
            SelectSeq(api.devices, LAMBDA d : d.supports_volume)
        ch == choose_device(volume_devices, preferred_name)
        d == ch.device
        ts == IF ch.transfer THEN <<d.id>> ELSE <<>>
    IN
    IF is_device_cache_valid(c, now)
    THEN [id |-> c.id, name |-> c.name, cache |-> c, listed |-> FALSE,
          transfers |-> <<>>]
    ELSE IF api.devices_raises THEN none
    ELSE IF api.devices = <<>> THEN none
    ELSE IF volume_devices = <<>> THEN none
    ELSE IF ch.transfer /\ api.transfer_raises
    THEN [none EXCEPT !.transfers = ts]
    ELSE [id |-> d.id, name |-> d.name,
          cache |-> [id |-> d.id, name |-> d.name, time |-> now],
          listed |-> TRUE, transfers |-> ts]

\* The answers of client.current_playback(): None, a session whose
\* is_playing is True, False or missing, or an exception with its text
PlaybackAnswers ==
    [kind : {"none"}, is_playing : {"missing"}, reason : {"none"}]
       \cup [kind : {"session"}, is_playing : {"true", "false", "missing"},
             reason : {"none"}]
       \cup [kind : {"raises"}, is_playing : {"missing"},
             reason : {"timeout", "unauthorized"}]

\* is_interruption_allowed that refuses when the query fails
is_interruption_allowed_fail_closed(pb) ==
    IF pb.kind = "raises"
    THEN [raised |-> FALSE, allowed |-> FALSE,
          message |-> <<"could_not_check", pb.reason>>]
    ELSE IF pb.kind = "none"
    THEN [raised |-> FALSE, allowed |-> TRUE, message |-> <<"no_session">>]
    ELSE IF pb.is_playing = "true"
    THEN [raised |-> FALSE, allowed |-> FALSE, message |-> <<"playing">>]
    ELSE IF pb.is_playing = "false"
    THEN [raised |-> FALSE, allowed |-> TRUE, message |-> <<"not_playing">>]
    ELSE [raised |-> FALSE, allowed |-> TRUE, message |-> <<"no_session">>]

\* is_interruption_allowed: pb is what client.current_playback() does.
\* raised: an exception leaves the function (no path of it does).
is_interruption_allowed(pb) ==
    IF pb.kind = "raises"
    THEN [raised |-> FALSE, allowed |-> TRUE,
          message |-> <<"could_not_check", pb.reason>>]
    ELSE IF pb.kind = "none"
    THEN [raised |-> FALSE, allowed |-> TRUE, message |-> <<"no_session">>]
    ELSE IF pb.is_playing = "true"
    THEN [raised |-> FALSE, allowed |-> FALSE, message |-> <<"playing">>]
    ELSE IF pb.is_playing = "false"
    THEN [raised |-> FALSE, allowed |-> TRUE, message |-> <<"not_playing">>]
    ELSE [raised |-> FALSE, allowed |-> TRUE, message |-> <<"no_session">>]

\* What the Web API does during one start_playback call of the service
PlaybackApiInputs == [start_raises : BOOLEAN, volume_raises : BOOLEAN]

\* start_playback that reports success although the volume call raised
start_playback_ignores_volume_error(track_uri, device_id, position_ms, volume, api) ==
    LET start == [op |-> "start_playback", device_id |-> device_id,
                  uri |-> track_uri, position_ms |-> position_ms]
        vol == [op |-> "volume", device_id |-> device_id, volume |-> volume]
    IN  IF api.start_raises
        THEN [raised |-> FALSE, ret |-> FALSE, calls |-> <<start>>]
        ELSE [raised |-> FALSE, ret |-> TRUE, calls |-> <<start, vol>>]

\* SpotifyService.start_playback: calls is the list of client calls issued,
\* in order, the last of them the one that raised if one did; raised is
\* whether an exception leaves the function (no path of it does).
start_playback(track_uri, device_id, position_ms, volume, api) ==
    LET start == [op |-> "start_playback", device_id |-> device_id,
                  uri |-> track_uri, position_ms |-> position_ms]
        vol == [op |-> "volume", device_id |-> device_id, volume |-> volume]
    IN  IF api.start_raises
        THEN [raised |-> FALSE, ret |-> FALSE, calls |-> <<start>>]
        ELSE IF api.volume_raises
        THEN [raised |-> FALSE, ret |-> FALSE, calls |-> <<start, vol>>]
        ELSE [raised |-> FALSE, ret |-> TRUE, calls |-> <<start, vol>>]

\* ------------------------------------------------- startup validation
MinSnippetSeconds == 1       \* validate_duration(..., min_seconds=1, ...)
MaxSnippetSeconds == 300     \* validate_duration(..., max_seconds=300)

\* The constructor arguments initialize() validates.  The durations are
\* integers (argparse type=int); folder_ok is whether validate_directory_path
\* accepts output_folder.  An interval that passes is the duration plus
\* SleepTime, so that every run that starts has the same countdown.
StartSettings ==
    {st \in [snippet_duration : {MinSnippetSeconds - 1, MinSnippetSeconds,
                                 MaxSnippetSeconds, MaxSnippetSeconds + 1},
             interval_duration : 0..(MaxSnippetSeconds + 1 + SleepTime),
             folder_ok : BOOLEAN] :
        st.interval_duration \in {st.snippet_duration - 1,
                                  st.snippet_duration + SleepTime}}

DefaultSettings ==
    [snippet_duration |-> MinSnippetSeconds,
     interval_duration |-> MinSnippetSeconds + SleepTime, folder_ok |-> TRUE]

\* validate_duration: TRUE when it returns, FALSE when it raises
validate_duration(duration, min_seconds, max_seconds) ==
    IF duration < min_seconds THEN FALSE
    ELSE IF duration > max_seconds THEN FALSE
    ELSE TRUE

\* validate_interval: TRUE when it returns, FALSE when it raises
validate_interval(interval, snippet_duration) ==
    IF interval < snippet_duration THEN FALSE ELSE TRUE

\* initialize() without the validation of the interval
initialize_interval_unchecked(st) ==
    /\ validate_duration(st.snippet_duration, MinSnippetSeconds,
                         MaxSnippetSeconds)
    /\ st.folder_ok

\* initialize(): TRUE when it returns True, FALSE when a ValidationError
\* makes it return False
initialize(st) ==
    /\ validate_duration(st.snippet_duration, MinSnippetSeconds,
                         MaxSnippetSeconds)
    /\ validate_interval(st.interval_duration, st.snippet_duration)
    /\ st.folder_ok

\* ------------------------------------------------- UI track history
HistoryMaxlen == 20          \* deque(maxlen=20)

\* track_data None (as argument) and current_track None (as state)
NoTrackData == [name |-> 0, artist |-> 0, blocked |-> FALSE]

\* The track_data dicts update_ui_track builds, as far as the history
\* reads them: name, artist and the blocked flag.  Song 1 by artist 1
\* comes played and blocked; song 1 by artist 2 has the same name.  (The
\* timestamp added to a history entry is left out: nothing reads it.)
UiTracks ==
    {[name |-> 1, artist |-> 1, blocked |-> FALSE],
     [name |-> 1, artist |-> 1, blocked |-> TRUE],
     [name |-> 1, artist |-> 2, blocked |-> FALSE]}

\* deque.appendleft without maxlen
appendleft_unbounded(h, x) == <<x>> \o h

\* deque(maxlen=20).appendleft(x): a full deque drops its last entry
appendleft(h, x) ==
    IF Len(h) >= HistoryMaxlen
    THEN <<x>> \o SubSeq(h, 1, HistoryMaxlen - 1)
    ELSE <<x>> \o h

\* update_current_track(track_data): st is app_state
update_current_track(st, track_data) ==
    IF track_data = NoTrackData
    THEN [st EXCEPT !.current_track = NoTrackData, !.arg = track_data]
    ELSE LET h == st.track_history
             is_duplicate ==
                /\ h # <<>>
                /\ h[1].name = track_data.name
                /\ h[1].artist = track_data.artist
         IN  [current_track |-> track_data,
              track_history |-> IF is_duplicate THEN h
                                ELSE appendleft(h, track_data),
              arg |-> track_data]

\* ------------------------------------------------------ recent-queue check
\* The test made on the whole list
last_5_songs_whole(q) == q

last_5_songs(q) ==
    IF Len(q) >= RecentWindow
    THEN SubSeq(q, Len(q) - RecentWindow + 1, Len(q))
    ELSE q

InSeq(x, q) == \E i \in 1..Len(q) : q[i] = x

\* Enough track strings to fill the window and queue one more
DedupTracks == 1..(RecentWindow + 1)

\* Steps 5 and 6 of a cycle for a found track with a device: the test on
\* the last five, start_playback, and self.queue.append(snip.track_string)
\* when it returned True.  accepted: client.start_playback returned, the
\* music service has started the track.
queue_if_new(q, track_string, api) ==
    LET playback_success ==
           start_playback(track_string, 1, 0, 0, api).ret
    IN
    IF InSeq(track_string, last_5_songs(q))
    THEN [skipped |-> TRUE, accepted |-> FALSE, queue |-> q]
    ELSE [skipped |-> FALSE, accepted |-> ~api.start_raises,
          queue |-> IF playback_success THEN Append(q, track_string)
                    ELSE q]

\* The window the list is compared with: a FIFO of at most RecentWindow
\* track strings whose push drops the oldest entry when it is full
FifoPush(f, x) ==
    IF Len(f) >= RecentWindow THEN Append(Tail(f), x) ELSE Append(f, x)

NoQueueCall ==
    [track |-> 0, skipped |-> FALSE, accepted |-> FALSE, queued |-> FALSE]

NewDedup == [queue |-> <<>>, fifo |-> <<>>, last |-> NoQueueCall]


\* ------------------------------------------------- one cycle, step by step
RecNone  == 0        \* recognize() returns None
RecRaise == -1       \* recognize() raises

\* What client.search does in one search_track call: it returns one item
\* with valid track data ("hit"), one item whose data fails validation
\* ("invalid"), no item ("empty"), or it raises ("raises")
SearchAnswers == {"hit", "invalid", "empty", "raises"}

\* search_track that lets a failure of client.search out
search_track_propagates(ans) ==
    [raised |-> (ans = "raises"), found |-> (ans = "hit")]

\* SpotifyService.search_track: found is whether a SpotifyTrack is returned
\* (None otherwise), raised whether an exception leaves the function
search_track(ans) == [raised |-> FALSE, found |-> (ans = "hit")]

\* Outcomes of the collaborators of one cycle after the capture.  An outcome
\* that the pipeline order never asks for is left at FALSE: the device is
\* resolved only for a found and permitted track, playback is started only
\* on a resolved device.
CycleInputs ==
    { in \in [rec : {RecNone, RecRaise} \cup Tracks, search : SearchAnswers,
              allowed : BOOLEAN, device : BOOLEAN, play : BOOLEAN] :
        /\ (in.rec \notin Tracks) => (in.search = "empty" /\ ~in.allowed)
        /\ in.device => (in.search = "hit" /\ in.allowed)
        /\ in.play => in.device }

NoInputs ==
    [rec |-> RecNone, search |-> "empty", allowed |-> FALSE,
     device |-> FALSE, play |-> FALSE]

\* Mutant of process_capture: the test of the cancellation token after
\* record_audio is missing.
process_capture_no_token_test(s, cap, ev) ==
    IF cap = "raise"
    THEN [done |-> TRUE, snip |-> mark_failed(s), phase |-> "waiting"]
    ELSE [done |-> FALSE, snip |-> mark_recorded(s), phase |-> "processing"]

\* process_snippet, from the return of record_audio to the first return:
\* cap is the capture's outcome, ev the cancellation token when it returns.
\* phase is the value written to _current_state ("keep": not written).
process_capture(s, cap, ev) ==
    IF cap = "raise"
    THEN [done |-> TRUE, snip |-> mark_failed(s), phase |-> "waiting"]
    ELSE IF ev
    THEN [done |-> TRUE, snip |-> mark_failed(s), phase |-> "keep"]
    ELSE [done |-> FALSE, snip |-> mark_recorded(s), phase |-> "processing"]

\* Mutant of search_and_play: the return for a track that was not found
\* (if not spotify_track: return False) is missing.
search_and_play_absence_goes_on(s1, q, in) ==
    LET spotify_track == search_track(in.search)
        info == IF spotify_track.found
                THEN set_spotify_info(s1, SearchHitKwargs)
                ELSE [raised |-> FALSE, snip |-> s1]
        s2   == info.snip
        c3   == {"recognize", "search", "interruption"}
    IN
    IF info.raised
    THEN [ret |-> "raise", snip |-> s2, queue |-> q,
          calls |-> {"recognize", "search"}, ui |-> "none"]
    ELSE IF ~in.allowed
    THEN [ret |-> "false", snip |-> s2, queue |-> q, calls |-> c3,
          ui |-> "blocked"]
    ELSE IF InSeq(s2.track_string, last_5_songs(q))
    THEN [ret |-> "false", snip |-> s2, queue |-> q, calls |-> c3,
          ui |-> "none"]
    ELSE IF ~in.device
    THEN [ret |-> "false", snip |-> mark_queueable(s2), queue |-> q,
          calls |-> c3 \cup {"device"}, ui |-> "blocked"]
    ELSE IF in.play
    THEN [ret |-> "true", snip |-> mark_queued(mark_queueable(s2)),
          queue |-> Append(q, s2.track_string),
          calls |-> c3 \cup {"device", "playback"}, ui |-> "played"]
    ELSE [ret |-> "false", snip |-> mark_queueable(s2), queue |-> q,
          calls |-> c3 \cup {"device", "playback"}, ui |-> "blocked"]

\* _process_recorded_snippet from the search on (steps 3 to 6): s1 is the
\* recognized snippet, q the queue list.  ret is "true", "false" or "raise"
\* (an exception leaves the function); calls is the set of collaborator
\* calls made; ui is the update_ui_track call made ("none", "blocked" or
\* "played").
search_and_play(s1, q, in) ==
    LET spotify_track == search_track(in.search)
        info == IF spotify_track.raised
                THEN [raised |-> TRUE, snip |-> s1]
                ELSE IF spotify_track.found
                THEN set_spotify_info(s1, SearchHitKwargs)
                ELSE [raised |-> FALSE, snip |-> s1]
        s2   == info.snip
        c2   == {"recognize", "search"}
        c3   == c2 \cup {"interruption"}
        c4   == c3 \cup {"device"}
        c5   == c4 \cup {"playback"}
    IN
    IF info.raised
    THEN [ret |-> "raise", snip |-> s2, queue |-> q, calls |-> c2,
          ui |-> "none"]
    ELSE IF ~in.allowed
    THEN [ret |-> "false", snip |-> s2, queue |-> q, calls |-> c3,
          ui |-> "blocked"]
    ELSE IF InSeq(s2.track_string, last_5_songs(q))
    THEN [ret |-> "false", snip |-> s2, queue |-> q, calls |-> c3,
          ui |-> "none"]
    ELSE IF ~spotify_track.found
    THEN [ret |-> "false", snip |-> mark_queueable(s2), queue |-> q,
          calls |-> c3, ui |-> "none"]
    ELSE IF ~in.device
    THEN [ret |-> "false", snip |-> mark_queueable(s2), queue |-> q,
          calls |-> c4, ui |-> "blocked"]
    ELSE IF in.play
    THEN [ret |-> "true", snip |-> mark_queued(mark_queueable(s2)),
          queue |-> Append(q, s2.track_string), calls |-> c5,
          ui |-> "played"]
    ELSE [ret |-> "false", snip |-> mark_queueable(s2), queue |-> q,
          calls |-> c5, ui |-> "blocked"]

\* Mutant of process_recorded_snippet: the return after mark_unrecognized
\* is missing, so an unrecognized snippet goes on to the search.
process_recorded_snippet_no_return(s, q, in) ==
    IF in.rec = RecRaise
    THEN [ret |-> "false", snip |-> mark_failed(s), queue |-> q,
          calls |-> {"recognize"}, ui |-> "none"]
    ELSE IF in.rec = RecNone
    THEN search_and_play(mark_unrecognized(s), q, in)
    ELSE search_and_play(mark_recognized(s, in.rec), q, in)

\* Mutant of process_recorded_snippet: an exception of recognize() is not
\* caught and leaves the function.
process_recorded_snippet_uncaught(s, q, in) ==
    IF in.rec = RecRaise
    THEN [ret |-> "raise", snip |-> s, queue |-> q,
          calls |-> {"recognize"}, ui |-> "none"]
    ELSE IF in.rec = RecNone
    THEN [ret |-> "false", snip |-> mark_unrecognized(s), queue |-> q,
          calls |-> {"recognize"}, ui |-> "none"]
    ELSE search_and_play(mark_recognized(s, in.rec), q, in)

\* _process_recorded_snippet: s is the recorded snippet, q the queue list.
process_recorded_snippet(s, q, in) ==
    IF in.rec = RecRaise
    THEN [ret |-> "false", snip |-> mark_failed(s), queue |-> q,
          calls |-> {"recognize"}, ui |-> "none"]
    ELSE IF in.rec = RecNone
    THEN [ret |-> "false", snip |-> mark_unrecognized(s), queue |-> q,
          calls |-> {"recognize"}, ui |-> "none"]
    ELSE search_and_play(mark_recognized(s, in.rec), q, in)

\* Mutant of retry_recognition: only the phase 'recording' queues the retry.
retry_recognition_recording_only(cs, rq, rn) ==
    IF cs = "recording"
    THEN [retry_queued |-> TRUE, retry_now |-> rn, ret |-> "queued"]
    ELSE [retry_queued |-> rq, retry_now |-> TRUE, ret |-> "accepted"]

\* retry_recognition: cs is _current_state; the result gives the new flags
\* and the return value ("queued" for 'queued', "accepted" for True).
retry_recognition(cs, rq, rn) ==
    IF cs \in {"recording", "processing"}
    THEN [retry_queued |-> TRUE, retry_now |-> rn, ret |-> "queued"]
    ELSE [retry_queued |-> rq, retry_now |-> TRUE, ret |-> "accepted"]

\* ------------------------------------------------------------------ state
VARIABLES
    is_running,      \* self.is_running
    is_paused,       \* self.is_paused
    retry_now,       \* self.retry_now
    retry_queued,    \* self.retry_queued
    stop_event,      \* self._stop_event is set
    current_state,   \* self._current_state ("unset": attribute absent)
    queue,           \* self.queue
    pc,              \* position of each loop thread in run_loop
    remaining,       \* countdown variable of each loop thread
    cnt,             \* cycle counter of each loop thread
    total_loops,     \* total_loops of each loop thread
    stop_pc,         \* position of the request handler inside stop()
    retry_ret,       \* value returned by the last retry_recognition call
    cycle,           \* per loop thread: what the process_snippet call
                     \* that has just returned (or raised) was given and did
    stopped,         \* history: stop() has returned and no start came after
    restarted,       \* history: the loop thread (a set of at most one)
                     \* that the last start request created after a stop()
                     \* that had returned, no stop() being called since
    settings,        \* snippet_duration, interval_duration, output_folder
                     \* as the constructor was given them
    retry_at,        \* history: where the loop was when retry() last set
                     \* retry_now ("countdown" or "other"), "none" once
                     \* the flag has been reset
    snip,            \* a Snippet object under a sequence of mark_X calls:
                     \* its value now and before the last call, that call,
                     \* and the states it has been in
    play,            \* the last start_playback call of the controller:
                     \* what it was computed from and its arguments
    svc,             \* a SpotifyService object: the clock, its device
                     \* cache, and the last call made on it with what it
                     \* was given and what it did
    dev,             \* the controller's SpotifyService as its two calling
                     \* threads share it: the clock, the device cache, and
                     \* for each caller the position of its
                     \* get_and_activate_device call with its local
                     \* device_id and device_name
    rec,             \* one record_audio call: its position, the chunks left to read,
                     \* the cancellation token, the stream, the wave file and the
                     \* output file as the call has left them, and its outcome
    hist,            \* the UI state of the web server under a sequence of
                     \* update_current_track calls: current_track, track_history
                     \* (newest first) and the argument of the last call
    dq               \* the recent-queue check under a sequence of tracks whose
                     \* playback succeeds: the queue list, the fixed-capacity FIFO
                     \* fed the same pushes, and the last track with its answer

\* The state of the loop controller, and the objects exercised on their own
controller ==
    <<is_running, is_paused, retry_now, retry_queued, stop_event,
      current_state, queue, pc, remaining, cnt, total_loops, stop_pc,
      retry_ret, cycle, stopped, restarted, settings, retry_at>>

units == <<snip, play, svc, dev, rec, hist, dq>>

vars == <<controller, units>>

flags == <<is_running, is_paused, retry_now, retry_queued, stop_event>>

Countdown == {"cd_check", "cd_sleep"}

\* Snippet(...) as process_snippet constructs it, no call made on it yet
FreshSnippet ==
    [now |-> NewSnippet, before |-> NewSnippet, op |-> "new",
     arg |-> NoTrack, visited |-> <<NewSnippet.state>>]

\* No start_playback call made yet
NoPlayback ==
    [called |-> FALSE, cfg |-> [playback_offset_ms |-> 0, volume_preview |-> 0],
     duration_ms |-> 0,
     args |-> [track_uri |-> NoTrack, device_id |-> 0, position_ms |-> 0,
               volume |-> 0]]

NoHit == -1          \* the cached device was not returned from the cache yet

\* No call made on the service, or its result dropped by the caller
NoCall == [kind |-> "none"]

\* SpotifyService(...) just constructed; the clock reads 0
NewService ==
    [now |-> 0, cache |-> EmptyCache, last_hit |-> NoHit, last |-> NoCall]

\* The contexts that call get_and_activate_device on the controller's
\* SpotifyService: the loop thread (_process_recorded_snippet) and a
\* request-handler thread of the web server (POST /api/control/test)
Callers == {"loop", "handler"}

\* preferred_name of each call: the loop passes the configured name, the
\* handler passes none (the default None)
PreferredOf(c) == IF c = "loop" THEN PreferredNames ELSE {NoName}

NoDeviceCall == [pc |-> "idle", id |-> NoDevice, name |-> NoName]

\* The first reading of time.time(): the clock is more than the TTL past
\* the 0 that _device_cache_time starts with
StartTime == DeviceCacheTtl

\* The controller's SpotifyService just constructed, no call in progress
NewSharedService ==
    [now |-> StartTime, cache |-> EmptyCache,
     call |-> [c \in Callers |-> NoDeviceCall]]

\* AppState() of the web server, before any update_current_track call
NewAppState ==
    [current_track |-> NoTrackData, track_history |-> <<>>,
     arg |-> NoTrackData]

\* No record_audio call in progress
NoRecording ==
    [pc |-> "idle", left |-> 0, has_event |-> FALSE, token |-> FALSE,
     stopped_early |-> FALSE, reads |-> 0,
     p |-> "none", stream |-> "none", wf |-> "none", file |-> "absent",
     ret |-> "none"]

NoCycle ==
    [kind |-> "none", in |-> NoInputs, ret |-> "false", state |-> "created",
     track |-> NoTrack, calls |-> {}, ui |-> "none", q_before |-> <<>>,
     q_after |-> <<>>, file |-> FALSE, removes |-> 0]

\* The state after construction (SilentDiscoApp.__init__) with main() about
\* to call run_loop(total_recording_time) on thread 1; limits is the set of
\* values total_loops can take in that call.
InitWith(limits, given) ==
    /\ is_running = FALSE
    /\ is_paused = FALSE
    /\ retry_now = FALSE
    /\ retry_queued = FALSE
    /\ stop_event = FALSE
    /\ current_state = "unset"
    /\ queue = <<>>
    /\ pc = [t \in Threads |-> IF t = 1 THEN "init" ELSE "none"]
    /\ remaining = [t \in Threads |-> 0]
    /\ cnt = [t \in Threads |-> 0]
    /\ total_loops \in {f \in [Threads -> limits \cup {NoLimit}] :
                          \A t \in Threads : t # 1 => f[t] = NoLimit}
    /\ stop_pc = "idle"
    /\ retry_ret = "none"
    /\ cycle = [t \in Threads |-> NoCycle]
    /\ stopped = FALSE
    /\ retry_at = "none"
    /\ restarted = {}
    /\ settings \in given
    /\ snip = FreshSnippet
    /\ play = NoPlayback
    /\ svc = NewService
    /\ dev = NewSharedService
    /\ rec = NoRecording
    /\ hist = NewAppState
    /\ dq = NewDedup

\* main() without --time-limit: total_recording_time is None
Init == InitWith({NoLimit}, {DefaultSettings})

\* main() with or without --time-limit
InitSolo == InitWith({NoLimit} \cup 0..MaxLoops, StartSettings)

\* The controller not started, with settings initialize() accepts: the state
\* in which the objects it uses are followed on their own
InitUnit == InitWith({NoLimit}, {DefaultSettings})

\* ------------------------------------------------------- control surface
\* POST /api/control/start: a new loop thread is created when is_running is
\* false; the thread sets is_running itself, later, inside run_loop.
StartRequest ==
    /\ stopped' = FALSE
    /\ IF ~is_running
       THEN \E t \in Threads :
              /\ pc[t] \in {"none", "done"}
              /\ pc' = [pc EXCEPT ![t] = "init"]
              /\ total_loops' = [total_loops EXCEPT ![t] = NoLimit]
              /\ cnt' = [cnt EXCEPT ![t] = 0]
              /\ restarted' = IF stopped /\ stop_pc = "idle" THEN {t}
                               ELSE {}
       ELSE UNCHANGED <<pc, total_loops, cnt, restarted>>
    /\ UNCHANGED <<flags, current_state, queue, remaining, stop_pc,
                   retry_ret, cycle>>
    /\ UNCHANGED <<settings, retry_at, units>>

\* stop(), first statement: self.is_running = False
StopBegin ==
    /\ stop_pc = "idle"
    /\ is_running' = FALSE
    /\ stop_pc' = "set_event"
    /\ UNCHANGED <<is_paused, retry_now, retry_queued, stop_event,
                   current_state, queue, pc, remaining, cnt, total_loops,
                   retry_ret, cycle, stopped>>
    /\ restarted' = {}
    /\ UNCHANGED <<settings, retry_at, units>>

\* stop(), second statement: self._stop_event.set()
StopEnd ==
    /\ stop_pc = "set_event"
    /\ stop_event' = TRUE
    /\ stop_pc' = "idle"
    /\ stopped' = TRUE
    /\ UNCHANGED <<is_running, is_paused, retry_now, retry_queued,
                   current_state, queue, pc, remaining, cnt, total_loops,
                   retry_ret, cycle>>
    /\ UNCHANGED <<restarted, settings, retry_at, units>>

Pause ==
    /\ is_paused' = TRUE
    /\ UNCHANGED <<is_running, retry_now, retry_queued, stop_event,
                   current_state, queue, pc, remaining, cnt, total_loops,
                   stop_pc, retry_ret, cycle, stopped>>
    /\ UNCHANGED <<restarted, settings, retry_at, units>>

Resume ==
    /\ is_paused' = FALSE
    /\ UNCHANGED <<is_running, retry_now, retry_queued, stop_event,
                   current_state, queue, pc, remaining, cnt, total_loops,
                   stop_pc, retry_ret, cycle, stopped>>
    /\ UNCHANGED <<restarted, settings, retry_at, units>>

Retry ==
    LET r == retry_recognition(current_state, retry_queued, retry_now) IN
    /\ retry_queued' = r.retry_queued
    /\ retry_now' = r.retry_now
    /\ retry_ret' = r.ret
    /\ retry_at' = IF r.ret = "queued" THEN retry_at
                   ELSE IF \E t \in Threads : pc[t] \in Countdown
                   THEN "countdown"
                   ELSE "other"
    /\ UNCHANGED <<is_running, is_paused, stop_event, current_state, queue,
                   pc, remaining, cnt, total_loops, stop_pc, cycle, stopped>>
    /\ UNCHANGED <<restarted, settings, units>>

\* ------------------------------------------------------------- run_loop
\* if not self.initialize(): return; self.is_running = True
RunInit(t) ==
    /\ pc[t] = "init"
    /\ IF initialize(settings)
       THEN /\ is_running' = TRUE
            /\ pc' = [pc EXCEPT ![t] = "clear"]
       ELSE /\ pc' = [pc EXCEPT ![t] = "done"]
            /\ UNCHANGED is_running
    /\ UNCHANGED <<is_paused, retry_now, retry_queued, stop_event,
                   current_state, queue, remaining, cnt, total_loops,
                   stop_pc, retry_ret, cycle, stopped>>
    /\ UNCHANGED <<restarted, settings, retry_at, units>>

\* self._stop_event.clear(); update_ui_status(is_listening=True); cnt = 0
RunClear(t) ==
    /\ pc[t] = "clear"
    /\ stop_event' = FALSE
    /\ cnt' = [cnt EXCEPT ![t] = 0]
    /\ pc' = [pc EXCEPT ![t] = "top"]
    /\ UNCHANGED <<is_running, is_paused, retry_now, retry_queued,
                   current_state, queue, remaining, total_loops, stop_pc,
                   retry_ret, cycle, stopped>>
    /\ UNCHANGED <<restarted, settings, retry_at, units>>

\* LoopTop without the test of is_paused
LoopTop_pause_ignored(t) ==
    /\ pc[t] = "top"
    /\ IF ~is_running
       THEN /\ pc' = [pc EXCEPT ![t] = "finally"]
            /\ UNCHANGED current_state
       ELSE /\ pc' = [pc EXCEPT ![t] = "capture"]
            /\ current_state' = "recording"
    /\ UNCHANGED <<flags, queue, remaining, cnt, total_loops, stop_pc,
                   retry_ret, cycle, stopped>>
    /\ UNCHANGED <<restarted, settings, retry_at, units>>

\* while self.is_running: if not self.is_paused: ... process_snippet() up to
\* the call of record_audio (snippet created, phase 'recording')
LoopTop(t) ==
    /\ pc[t] = "top"
    /\ IF ~is_running
       THEN /\ pc' = [pc EXCEPT ![t] = "finally"]
            /\ UNCHANGED current_state
       ELSE IF is_paused
       THEN /\ pc' = [pc EXCEPT ![t] = "paused"]
            /\ UNCHANGED current_state
       ELSE /\ pc' = [pc EXCEPT ![t] = "capture"]
            /\ current_state' = "recording"
    /\ UNCHANGED <<flags, queue, remaining, cnt, total_loops, stop_pc,
                   retry_ret, cycle, stopped>>
    /\ UNCHANGED <<restarted, settings, retry_at, units>>

\* else: time.sleep(1)
PausedSleep(t) ==
    /\ pc[t] = "paused"
    /\ pc' = [pc EXCEPT ![t] = "top"]
    /\ UNCHANGED <<flags, current_state, queue, remaining, cnt, total_loops,
                   stop_pc, retry_ret, cycle, stopped>>
    /\ UNCHANGED <<restarted, settings, retry_at, units>>

\* record_audio returns or raises; the token is tested; on success the
\* snippet is RECORDED and _process_recorded_snippet sets phase 'processing'.
\* wrote: record_audio created the capture file (wave.open) before it
\* returned or raised.  A capture that returns with the token clear has
\* written it; one that returns with the token set was interrupted before
\* writing, or wrote the file before stop() set the token; one that raises
\* did so before or after wave.open.  The two early returns of
\* process_snippet do not call _cleanup_snippet_file.
CaptureDone(t) ==
    /\ pc[t] = "capture"
    /\ \E cap \in {"ok", "raise"}, wrote \in BOOLEAN :
         LET r == process_capture(NewSnippet, cap, stop_event) IN
         /\ (cap = "ok" /\ ~stop_event) => wrote
         /\ current_state' = IF r.phase = "keep" THEN current_state
                             ELSE r.phase
         /\ IF r.done
            THEN /\ pc' = [pc EXCEPT ![t] = "after"]
                 /\ cycle' = [cycle EXCEPT ![t] =
                              [NoCycle EXCEPT
                                 !.kind = IF cap = "raise"
                                          THEN "capture_failed"
                                          ELSE "cancelled",
                                 !.state = r.snip.state,
                                 !.q_before = queue, !.q_after = queue,
                                 !.file = wrote]]
            ELSE /\ pc' = [pc EXCEPT ![t] = "processing"]
                 /\ UNCHANGED cycle
    /\ UNCHANGED <<flags, queue, remaining, cnt, total_loops, stop_pc,
                   retry_ret, stopped>>
    /\ UNCHANGED <<restarted, settings, retry_at, units>>

\* _process_recorded_snippet runs to its return or to an exception, which
\* run_loop does not catch: it leaves through the finally clause.  Either
\* way process_snippet's finally calls _cleanup_snippet_file on the file the
\* capture wrote.
ProcessRecorded(t) ==
    /\ pc[t] = "processing"
    /\ \E in \in CycleInputs :
         LET r == process_recorded_snippet(mark_recorded(NewSnippet), queue, in)
             f == cleanup_snippet_file(TRUE)
         IN
         /\ queue' = r.queue
         /\ cycle' = [cycle EXCEPT ![t] =
                      [kind |-> "processed", in |-> in, ret |-> r.ret,
                       state |-> r.snip.state, track |-> r.snip.track_string,
                       calls |-> r.calls, ui |-> r.ui, q_before |-> queue,
                       q_after |-> r.queue, file |-> f.exists,
                       removes |-> f.removes]]
         /\ pc' = [pc EXCEPT ![t] = IF r.ret = "raise" THEN "finally"
                                    ELSE "after"]
    /\ UNCHANGED <<flags, current_state, remaining, cnt, total_loops,
                   stop_pc, retry_ret, stopped>>
    /\ UNCHANGED <<restarted, settings, retry_at, units>>

\* AfterCycle with a queued retry that skips the countdown and stays queued
AfterCycle_flag_kept(t) ==
    /\ pc[t] = "after"
    /\ LET c == IF total_loops[t] = NoLimit THEN 0
                ELSE IF cnt[t] > MaxLoops THEN cnt[t]
                ELSE cnt[t] + 1 IN
       /\ cnt' = [cnt EXCEPT ![t] = c]
       /\ IF retry_queued
          THEN /\ pc' = [pc EXCEPT ![t] = "top"]
               /\ UNCHANGED <<retry_queued, current_state, remaining>>
          ELSE IF total_loops[t] # NoLimit /\ c >= total_loops[t]
          THEN /\ pc' = [pc EXCEPT ![t] = "finally"]
               /\ UNCHANGED <<retry_queued, current_state, remaining>>
          ELSE /\ current_state' = "waiting"
               /\ remaining' = [remaining EXCEPT ![t] = SleepTime]
               /\ pc' = [pc EXCEPT ![t] = IF SleepTime > 0 THEN "cd_check"
                                          ELSE "top"]
               /\ UNCHANGED retry_queued
    /\ cycle' = [cycle EXCEPT ![t] = NoCycle]
    /\ UNCHANGED <<is_running, is_paused, retry_now, stop_event, queue,
                   total_loops, stop_pc, retry_ret, stopped>>
    /\ UNCHANGED <<restarted, settings, retry_at, units>>

\* cnt += 1; queued retry; loop limit; phase 'waiting'; start of countdown.
\* cnt is read only in the comparison cnt >= total_loops: it is kept only
\* for a run that has a limit, and it stops counting one above the largest
\* limit, where the comparison no longer changes.
AfterCycle(t) ==
    /\ pc[t] = "after"
    /\ LET c == IF total_loops[t] = NoLimit THEN 0
                ELSE IF cnt[t] > MaxLoops THEN cnt[t]
                ELSE cnt[t] + 1 IN
       /\ cnt' = [cnt EXCEPT ![t] = c]
       /\ IF retry_queued
          THEN /\ retry_queued' = FALSE
               /\ pc' = [pc EXCEPT ![t] = "top"]
               /\ UNCHANGED <<current_state, remaining>>
          ELSE IF total_loops[t] # NoLimit /\ c >= total_loops[t]
          THEN /\ pc' = [pc EXCEPT ![t] = "finally"]
               /\ UNCHANGED <<retry_queued, current_state, remaining>>
          ELSE /\ current_state' = "waiting"
               /\ remaining' = [remaining EXCEPT ![t] = SleepTime]
               /\ pc' = [pc EXCEPT ![t] = IF SleepTime > 0 THEN "cd_check"
                                          ELSE "top"]
               /\ UNCHANGED retry_queued
    /\ cycle' = [cycle EXCEPT ![t] = NoCycle]
    /\ UNCHANGED <<is_running, is_paused, retry_now, stop_event, queue,
                   total_loops, stop_pc, retry_ret, stopped>>
    /\ UNCHANGED <<restarted, settings, retry_at, units>>

\* for remaining in range(sleep_time, 0, -1): the test at the head of one
\* second of the countdown
CountdownCheck(t) ==
    /\ pc[t] = "cd_check"
    /\ IF ~is_running \/ retry_now
       THEN /\ retry_now' = FALSE
            /\ retry_at' = "none"
            /\ pc' = [pc EXCEPT ![t] = "top"]
            /\ remaining' = [remaining EXCEPT ![t] = 0]
            /\ UNCHANGED current_state
       ELSE /\ current_state' = "waiting"
            /\ pc' = [pc EXCEPT ![t] = "cd_sleep"]
            /\ UNCHANGED <<retry_now, retry_at, remaining>>
    /\ UNCHANGED <<is_running, is_paused, retry_queued, stop_event, queue,
                   cnt, total_loops, stop_pc, retry_ret, cycle, stopped>>
    /\ UNCHANGED <<restarted, settings, units>>

\* time.sleep(1), then the next value of the range or the end of the for
CountdownSleep(t) ==
    /\ pc[t] = "cd_sleep"
    /\ remaining' = [remaining EXCEPT ![t] = remaining[t] - 1]
    /\ pc' = [pc EXCEPT ![t] = IF remaining[t] - 1 > 0 THEN "cd_check"
                               ELSE "top"]
    /\ UNCHANGED <<flags, current_state, queue, cnt, total_loops, stop_pc,
                   retry_ret, cycle, stopped>>
    /\ UNCHANGED <<restarted, settings, retry_at, units>>

\* finally: self.is_running = False; update_ui_status(is_listening=False)
Finally(t) ==
    /\ pc[t] = "finally"
    /\ is_running' = FALSE
    /\ pc' = [pc EXCEPT ![t] = "done"]
    /\ cycle' = [cycle EXCEPT ![t] = NoCycle]
    /\ UNCHANGED <<is_paused, retry_now, retry_queued, stop_event,
                   current_state, queue, remaining, cnt, total_loops,
                   stop_pc, retry_ret, stopped>>
    /\ UNCHANGED <<restarted, settings, retry_at, units>>

Next ==
    \/ StartRequest
    \/ StopBegin
    \/ StopEnd
    \/ Pause
    \/ Resume
    \/ Retry
    \/ \E t \in Threads : RunInit(t)
    \/ \E t \in Threads : RunClear(t)
    \/ \E t \in Threads : LoopTop(t)
    \/ \E t \in Threads : PausedSleep(t)
    \/ \E t \in Threads : CaptureDone(t)
    \/ \E t \in Threads : ProcessRecorded(t)
    \/ \E t \in Threads : AfterCycle(t)
    \/ \E t \in Threads : CountdownCheck(t)
    \/ \E t \in Threads : CountdownSleep(t)
    \/ \E t \in Threads : Finally(t)

Spec == Init /\ [][Next]_vars

\* The run of main(): one loop thread, every control operation but start
NextSolo ==
    \/ StopBegin
    \/ StopEnd
    \/ Pause
    \/ Resume
    \/ Retry
    \/ \E t \in Threads : RunInit(t)
    \/ \E t \in Threads : RunClear(t)
    \/ \E t \in Threads : LoopTop(t)
    \/ \E t \in Threads : PausedSleep(t)
    \/ \E t \in Threads : CaptureDone(t)
    \/ \E t \in Threads : ProcessRecorded(t)
    \/ \E t \in Threads : AfterCycle(t)
    \/ \E t \in Threads : CountdownCheck(t)
    \/ \E t \in Threads : CountdownSleep(t)
    \/ \E t \in Threads : Finally(t)

SpecSolo == InitSolo /\ [][NextSolo]_vars

\* -------------------------------------------------- snippet state machine
\* One call of a method of the snippet; after is the snippet the call leaves
SnippetCall(op, arg, after) ==
    /\ snip' = [now |-> after, before |-> snip.now, op |-> op, arg |-> arg,
                visited |-> IF after.state = snip.now.state
                            THEN snip.visited
                            ELSE Append(snip.visited, after.state)]
    /\ UNCHANGED <<controller, play, svc, dev, rec, hist, dq>>

MarkRecorded ==
    SnippetCall("mark_recorded", NoTrack, mark_recorded(snip.now))

MarkRecognized ==
    \E track \in Tracks :
       SnippetCall("mark_recognized", track, mark_recognized(snip.now, track))

MarkUnrecognized ==
    SnippetCall("mark_unrecognized", NoTrack, mark_unrecognized(snip.now))

MarkQueueable ==
    SnippetCall("mark_queueable", NoTrack, mark_queueable(snip.now))

MarkQueued ==
    SnippetCall("mark_queued", NoTrack, mark_queued(snip.now))

MarkFailed ==
    SnippetCall("mark_failed", NoTrack, mark_failed(snip.now))

\* set_spotify_info with the keyword arguments it declares
SetSpotifyInfo ==
    SnippetCall("set_spotify_info", NoTrack,
                set_spotify_info(snip.now, SetSpotifyInfoParams).snip)

\* The next cycle constructs a new snippet
CreateSnippet ==
    /\ snip' = FreshSnippet
    /\ UNCHANGED <<controller, play, svc, dev, rec, hist, dq>>

NextSnippet ==
    \/ MarkRecorded
    \/ MarkRecognized
    \/ MarkUnrecognized
    \/ MarkQueueable
    \/ MarkQueued
    \/ MarkFailed
    \/ SetSpotifyInfo
    \/ CreateSnippet

\* A snippet under every sequence of calls of its methods
SpecSnippet == InitUnit /\ [][NextSnippet]_vars

\* ------------------------------------------------------ playback request
\* Step 6 of a cycle from the resolved device on: the controller computes
\* the position and calls start_playback, for any found track, device and
\* configuration
StartPlayback ==
    /\ \E track \in Tracks, device_id \in 1..NumDevices,
          duration_ms \in 0..MaxMs, cfg \in Configs :
          play' = [called |-> TRUE, cfg |-> cfg, duration_ms |-> duration_ms,
                   args |-> start_playback_args(track, device_id,
                                                duration_ms, cfg)]
    /\ UNCHANGED <<controller, snip, svc, dev, rec, hist, dq>>

NextPlayback == StartPlayback

\* The playback request of the controller over every input it can be given
SpecPlayback == InitUnit /\ [][NextPlayback]_vars

\* -------------------------------------------------------- music service
\* Time passes between two calls
Tick ==
    /\ svc.last = NoCall
    /\ svc.now < MaxTicks * TickSeconds
    /\ svc' = [svc EXCEPT !.now = svc.now + TickSeconds]
    /\ UNCHANGED <<controller, snip, play, dev, rec, hist, dq>>

\* One get_and_activate_device call.  last_hit is the time of the last
\* call that returned the cached device since it was cached.
GetAndActivateDevice ==
    /\ svc.last = NoCall
    /\ \E preferred_name \in PreferredNames, api \in ApiInputs :
         LET r == get_and_activate_device(svc.cache, svc.now,
                                          preferred_name, api)
         IN  svc' = [svc EXCEPT
                       !.cache = r.cache,
                       !.last_hit = IF ~r.listed THEN svc.now
                                    ELSE IF r.cache # svc.cache THEN NoHit
                                    ELSE svc.last_hit,
                       !.last = [kind |-> "resolve", at |-> svc.now,
                                 pre |-> svc.cache,
                                 pre_hit |-> svc.last_hit,
                                 preferred_name |-> preferred_name,
                                 api |-> IF r.listed THEN api
                                         ELSE [devices |-> <<>>,
                                               devices_raises |-> FALSE,
                                               transfer_raises |-> FALSE],
                                 ret |-> r]]
    /\ UNCHANGED <<controller, snip, play, dev, rec, hist, dq>>

\* One is_interruption_allowed call
IsInterruptionAllowed ==
    /\ svc.last = NoCall
    /\ \E pb \in PlaybackAnswers :
         svc' = [svc EXCEPT
                   !.last = [kind |-> "interruption", pb |-> pb,
                             ret |-> is_interruption_allowed(pb)]]
    /\ UNCHANGED <<controller, snip, play, dev, rec, hist, dq>>

\* One start_playback call of the service
ServiceStartPlayback ==
    /\ svc.last = NoCall
    /\ \E track \in Tracks, device_id \in DeviceIds,
          position_ms \in 0..MaxMs, volume \in {0, 40},
          api \in PlaybackApiInputs :
         svc' = [svc EXCEPT
                   !.last = [kind |-> "playback",
                             track |-> track, device_id |-> device_id,
                             position_ms |-> position_ms,
                             volume |-> volume, api |-> api,
                             ret |-> start_playback(track, device_id,
                                                    position_ms, volume,
                                                    api)]]
    /\ UNCHANGED <<controller, snip, play, dev, rec, hist, dq>>

\* The caller has used the result of the call
CallReturned ==
    /\ svc.last # NoCall
    /\ svc' = [svc EXCEPT !.last = NoCall]
    /\ UNCHANGED <<controller, snip, play, dev, rec, hist, dq>>

NextService ==
    \/ Tick
    \/ GetAndActivateDevice
    \/ IsInterruptionAllowed
    \/ ServiceStartPlayback
    \/ CallReturned

\* A SpotifyService under every sequence of calls over time
SpecService == InitUnit /\ [][NextService]_vars

\* ------------------------------------------------- record_audio
\* One step is one call of record_audio into PyAudio or wave, each of which
\* returns or raises; stream.close() and p.terminate() are taken to return.
\* An exception leaves the try block for the finally clause.

\* record_audio(filename, duration, stop_event) is called: total_chunks is
\* int(RATE / CHUNK * duration); stop_event is given or None, set or not
RecordAudio ==
    /\ rec.pc = "idle"
    /\ \E total_chunks \in 0..MaxChunks, ev \in BOOLEAN, set \in BOOLEAN :
         /\ set => ev
         /\ rec' = [NoRecording EXCEPT !.pc = "pyaudio",
                                       !.left = total_chunks,
                                       !.has_event = ev, !.token = set]
    /\ UNCHANGED <<controller, snip, play, svc, dev, hist, dq>>

\* stop() sets the token from another thread while the call is running
RecTokenSet ==
    /\ rec.pc \notin {"idle", "out"}
    /\ rec.has_event
    /\ ~rec.token
    /\ rec' = [rec EXCEPT !.token = TRUE]
    /\ UNCHANGED <<controller, snip, play, svc, dev, hist, dq>>

\* p = pyaudio.PyAudio()
RecPyAudio ==
    /\ rec.pc = "pyaudio"
    /\ \E raises \in BOOLEAN :
         rec' = IF raises
                THEN [rec EXCEPT !.pc = "fin_wf", !.ret = "raised"]
                ELSE [rec EXCEPT !.pc = "open", !.p = "live"]
    /\ UNCHANGED <<controller, snip, play, svc, dev, hist, dq>>

\* stream = p.open(...)
RecOpen ==
    /\ rec.pc = "open"
    /\ \E raises \in BOOLEAN :
         rec' = IF raises
                THEN [rec EXCEPT !.pc = "fin_wf", !.ret = "raised"]
                ELSE [rec EXCEPT !.pc = "loop", !.stream = "open"]
    /\ UNCHANGED <<controller, snip, play, svc, dev, hist, dq>>

\* for _ in range(total_chunks): if stop_event and stop_event.is_set():
\* stopped_early = True; break.  After the loop: if stopped_early: return.
RecLoop ==
    /\ rec.pc = "loop"
    /\ rec' = IF rec.left = 0
              THEN [rec EXCEPT !.pc = "wave_open"]
              ELSE IF rec.has_event /\ rec.token
              THEN [rec EXCEPT !.stopped_early = TRUE, !.pc = "fin_wf",
                               !.ret = "interrupted"]
              ELSE [rec EXCEPT !.pc = "read"]
    /\ UNCHANGED <<controller, snip, play, svc, dev, hist, dq>>

\* data = stream.read(CHUNK, ...); frames.append(data)
RecRead ==
    /\ rec.pc = "read"
    /\ \E raises \in BOOLEAN :
         rec' = IF raises
                THEN [rec EXCEPT !.pc = "fin_wf", !.ret = "raised"]
                ELSE [rec EXCEPT !.pc = "loop", !.left = rec.left - 1,
                                 !.reads = rec.reads + 1]
    /\ UNCHANGED <<controller, snip, play, svc, dev, hist, dq>>

\* wf = wave.open(filename, 'wb'): the output file exists from here on
RecWaveOpen ==
    /\ rec.pc = "wave_open"
    /\ \E raises \in BOOLEAN :
         rec' = IF raises
                THEN [rec EXCEPT !.pc = "fin_wf", !.ret = "raised"]
                ELSE [rec EXCEPT !.pc = "write", !.wf = "open",
                                 !.file = "partial"]
    /\ UNCHANGED <<controller, snip, play, svc, dev, hist, dq>>

\* wf.setnchannels ... wf.writeframes(b''.join(frames)); return
RecWrite ==
    /\ rec.pc = "write"
    /\ \E raises \in BOOLEAN :
         rec' = IF raises
                THEN [rec EXCEPT !.pc = "fin_wf", !.ret = "raised"]
                ELSE [rec EXCEPT !.pc = "fin_wf", !.file = "written",
                                 !.ret = "succeeded"]
    /\ UNCHANGED <<controller, snip, play, svc, dev, hist, dq>>

\* finally: if wf is not None: wf.close().  An exception of wf.close()
\* leaves the finally clause and the function.
RecCloseWave ==
    /\ rec.pc = "fin_wf"
    /\ IF rec.wf = "none"
       THEN rec' = [rec EXCEPT !.pc = "fin_stream"]
       ELSE \E raises \in BOOLEAN :
              rec' = IF raises
                     THEN [rec EXCEPT !.pc = "out", !.ret = "raised"]
                     ELSE [rec EXCEPT !.pc = "fin_stream",
                                      !.wf = "closed"]
    /\ UNCHANGED <<controller, snip, play, svc, dev, hist, dq>>

\* if stream is not None: stream.close()
RecCloseStream ==
    /\ rec.pc = "fin_stream"
    /\ rec' = [rec EXCEPT !.pc = "fin_p",
                          !.stream = IF rec.stream = "none" THEN "none"
                                     ELSE "closed"]
    /\ UNCHANGED <<controller, snip, play, svc, dev, hist, dq>>

\* if p is not None: p.terminate(); the function returns or re-raises
RecTerminate ==
    /\ rec.pc = "fin_p"
    /\ rec' = [rec EXCEPT !.pc = "out",
                          !.p = IF rec.p = "none" THEN "none"
                                ELSE "terminated"]
    /\ UNCHANGED <<controller, snip, play, svc, dev, hist, dq>>

\* The caller has the outcome
RecDone ==
    /\ rec.pc = "out"
    /\ rec' = NoRecording
    /\ UNCHANGED <<controller, snip, play, svc, dev, hist, dq>>

NextListener ==
    \/ RecordAudio
    \/ RecTokenSet
    \/ RecPyAudio
    \/ RecOpen
    \/ RecLoop
    \/ RecRead
    \/ RecWaveOpen
    \/ RecWrite
    \/ RecCloseWave
    \/ RecCloseStream
    \/ RecTerminate
    \/ RecDone

\* record_audio under every outcome of the calls it makes
SpecListener == InitUnit /\ [][NextListener]_vars

\* ------------------------------------------------- UI track history
\* One update_current_track call, with a track or with None
UpdateCurrentTrack ==
    /\ \E track_data \in UiTracks \cup {NoTrackData} :
         hist' = update_current_track(hist, track_data)
    /\ UNCHANGED <<controller, snip, play, svc, dev, rec, dq>>

NextHistory == UpdateCurrentTrack

\* The web server's track display under every sequence of updates
SpecHistory == InitUnit /\ [][NextHistory]_vars

\* ------------------------------------------------- recent-queue check
\* One cycle gets to the recent-queue test with a found track and a
\* device; the FIFO is pushed whenever the list is appended to
QueueIfNew ==
    /\ Len(dq.queue) < MaxQueue
    /\ \E track_string \in DedupTracks, api \in PlaybackApiInputs :
         LET r == queue_if_new(dq.queue, track_string, api) IN
         dq' = [queue |-> r.queue,
                fifo  |-> IF r.queue = dq.queue THEN dq.fifo
                          ELSE FifoPush(dq.fifo, track_string),
                last  |-> [track |-> track_string, skipped |-> r.skipped,
                           accepted |-> r.accepted,
                           queued |-> r.queue # dq.queue]]
    /\ UNCHANGED <<controller, snip, play, svc, dev, rec, hist>>

\* A new controller: self.queue = []
QueueReset ==
    /\ Len(dq.queue) >= MaxQueue
    /\ dq' = NewDedup
    /\ UNCHANGED <<controller, snip, play, svc, dev, rec, hist>>

NextDedup == QueueIfNew \/ QueueReset

\* The queue list under every sequence of cycles that get to the
\* recent-queue test
SpecDedup == InitUnit /\ [][NextDedup]_vars

\* ------------------------------------- the device cache between threads
\* get_and_activate_device has no lock: the statements of two calls
\* interleave.  One step is one read or one write of the cache attributes.

\* time.time() advances
DevTick ==
    /\ dev.now < StartTime + MaxTicks * TickSeconds
    /\ dev' = [dev EXCEPT !.now = dev.now + TickSeconds]
    /\ UNCHANGED <<controller, snip, play, svc, rec, hist, dq>>

\* if self._is_device_cache_valid(): the call begins with the test
DevCheck(c) ==
    /\ dev.call[c].pc = "idle"
    /\ dev' = [dev EXCEPT !.call[c] =
                 [NoDeviceCall EXCEPT
                    !.pc = IF is_device_cache_valid(dev.cache, dev.now)
                           THEN "hit_id" ELSE "fetch"]]
    /\ UNCHANGED <<controller, snip, play, svc, rec, hist, dq>>

\* return self._cached_device_id, ...: the first attribute is read
DevReadId(c) ==
    /\ dev.call[c].pc = "hit_id"
    /\ dev' = [dev EXCEPT !.call[c].id = dev.cache.id,
                          !.call[c].pc = "hit_name"]
    /\ UNCHANGED <<controller, snip, play, svc, rec, hist, dq>>

\* return ..., self._cached_device_name: the second attribute is read
DevReadName(c) ==
    /\ dev.call[c].pc = "hit_name"
    /\ dev' = [dev EXCEPT !.call[c].name = dev.cache.name,
                          !.call[c].pc = "ret"]
    /\ UNCHANGED <<controller, snip, play, svc, rec, hist, dq>>

\* client.devices(), the choice of the device and transfer_playback: the
\* call returns (None, None), or holds device_id and device_name
DevFetch(c) ==
    /\ dev.call[c].pc = "fetch"
    /\ \E preferred_name \in PreferredOf(c), api \in ApiInputs :
         LET r == get_and_activate_device(EmptyCache, dev.now,
                                          preferred_name, api)
         IN  dev' = [dev EXCEPT !.call[c] =
                       [pc |-> IF r.id = NoDevice THEN "ret" ELSE "w_id",
                        id |-> r.id, name |-> r.name]]
    /\ UNCHANGED <<controller, snip, play, svc, rec, hist, dq>>

\* self._cached_device_id = device_id
DevWriteId(c) ==
    /\ dev.call[c].pc = "w_id"
    /\ dev' = [dev EXCEPT !.cache.id = dev.call[c].id,
                          !.call[c].pc = "w_name"]
    /\ UNCHANGED <<controller, snip, play, svc, rec, hist, dq>>

\* self._cached_device_name = device_name
DevWriteName(c) ==
    /\ dev.call[c].pc = "w_name"
    /\ dev' = [dev EXCEPT !.cache.name = dev.call[c].name,
                          !.call[c].pc = "w_time"]
    /\ UNCHANGED <<controller, snip, play, svc, rec, hist, dq>>

\* self._device_cache_time = time.time()
DevWriteTime(c) ==
    /\ dev.call[c].pc = "w_time"
    /\ dev' = [dev EXCEPT !.cache.time = dev.now,
                          !.call[c].pc = "ret"]
    /\ UNCHANGED <<controller, snip, play, svc, rec, hist, dq>>

\* The caller has taken the pair
DevReturn(c) ==
    /\ dev.call[c].pc = "ret"
    /\ dev' = [dev EXCEPT !.call[c] = NoDeviceCall]
    /\ UNCHANGED <<controller, snip, play, svc, rec, hist, dq>>

NextDevices ==
    \/ DevTick
    \/ \E c \in Callers :
          \/ DevCheck(c)
          \/ DevReadId(c)
          \/ DevReadName(c)
          \/ DevFetch(c)
          \/ DevWriteId(c)
          \/ DevWriteName(c)
          \/ DevWriteTime(c)
          \/ DevReturn(c)

\* The controller's SpotifyService called by the loop thread and by a
\* request handler at once
SpecDevices == InitUnit /\ [][NextDevices]_vars

\* ------------------------------------------------------------------ claims
\* A cycle that went through _process_recorded_snippet has just ended on t
Processed(t) == cycle[t].kind = "processed"

\* The collaborators of that cycle recognized a track and found it
FoundTrack(t) ==
    /\ Processed(t)
    /\ cycle[t].in.rec \in Tracks
    /\ cycle[t].in.search = "hit"

\* Every collaborator of that cycle succeeded
AllSucceed(t) ==
    /\ FoundTrack(t)
    /\ cycle[t].in.allowed
    /\ cycle[t].in.device
    /\ cycle[t].in.play

\* C1: whatever the collaborators of a cycle do, process_snippet returns to
\* run_loop without raising: no cycle ends with an exception that leaves
\* run_loop and ends the loop thread.
C1_CycleNeverRaises == \A t \in Threads : cycle[t].ret # "raise"

\* C2: under any interleaving of start and stop requests, at most one loop
\* thread is inside a cycle (capturing, processing or finishing it) at any
\* time.
C2_SingleLoopContext ==
    Cardinality({t \in Threads : pc[t] \in {"capture", "processing", "after"}})
        <= 1

\* C3: once stop() has returned and no start request follows, no loop thread
\* begins a new cycle.
C3_NoCycleAfterStop ==
    [][stopped =>
         \A t \in Threads : ~(pc[t] = "top" /\ pc'[t] = "capture")]_vars

\* C4: stop() sets is_running to false and sets the cancellation token; and
\* when the token is set as the capture returns, the cycle ends at once: the
\* snippet is FAILED (never RECORDED), the result is false and no
\* recognition, search, interruption, device or playback call was made.
C4_CancelledCaptureEndsCycle ==
    [][/\ StopBegin => ~is_running'
       /\ StopEnd => stop_event'
       /\ \A t \in Threads :
            (pc[t] = "capture" /\ stop_event /\ pc'[t] # "capture") =>
               /\ pc'[t] = "after"
               /\ cycle'[t].state = "failed"
               /\ cycle'[t].ret = "false"
               /\ cycle'[t].calls = {}
               /\ cycle'[t].ui = "none"
               /\ queue' = queue]_vars

\* C4 witness: a cycle has just ended because its capture was cancelled
C4_Witness ==
    \E t \in Threads :
       pc[t] = "after" /\ cycle[t].kind = "cancelled" /\ stop_event

\* C5: when every collaborator succeeds for a recognized track, the track is
\* not played (no start_playback, window unchanged, result false) if it is
\* among the last 5 queued, and it is played and appended otherwise.
C5_RecentWindowDecidesPlayback ==
    \A t \in Threads :
       AllSucceed(t) =>
          IF InSeq(cycle[t].in.rec, last_5_songs(cycle[t].q_before))
          THEN /\ "playback" \notin cycle[t].calls
               /\ cycle[t].q_after = cycle[t].q_before
               /\ cycle[t].ret = "false"
          ELSE /\ "playback" \in cycle[t].calls
               /\ cycle[t].q_after =
                     Append(cycle[t].q_before, cycle[t].in.rec)

\* C6: when every collaborator succeeds for a track that is not in the
\* recent window, the cycle returns true, the snippet is QUEUED, the UI gets
\* the track as played and not blocked, and the window contains the track.
C6_HappyPath ==
    \A t \in Threads :
       (AllSucceed(t) /\
        ~InSeq(cycle[t].in.rec, last_5_songs(cycle[t].q_before))) =>
          /\ cycle[t].ret = "true"
          /\ cycle[t].state = "queued"
          /\ cycle[t].ui = "played"
          /\ InSeq(cycle[t].in.rec, last_5_songs(cycle[t].q_after))

\* C7: when interruption is not allowed for a recognized and found track,
\* the cycle returns false, the UI gets the track as blocked, no device is
\* resolved, no playback is started and the recent window is unchanged.
C7_BlockedTrack ==
    \A t \in Threads :
       (FoundTrack(t) /\ ~cycle[t].in.allowed) =>
          /\ cycle[t].ret = "false"
          /\ cycle[t].ui = "blocked"
          /\ "device" \notin cycle[t].calls
          /\ "playback" \notin cycle[t].calls
          /\ cycle[t].q_after = cycle[t].q_before

\* C8: when recognition returns None, the snippet ends UNRECOGNIZED, the
\* cycle returns false, the UI gets no track update, and recognition is the
\* only collaborator call of the cycle.
C8_Unrecognized ==
    \A t \in Threads :
       (Processed(t) /\ cycle[t].in.rec = RecNone) =>
          /\ cycle[t].state = "unrecognized"
          /\ cycle[t].ret = "false"
          /\ cycle[t].ui = "none"
          /\ cycle[t].calls = {"recognize"}
          /\ cycle[t].q_after = cycle[t].q_before

\* C8 witness: a cycle whose recognition returned None has just ended
C8_Witness ==
    \E t \in Threads :
       pc[t] = "after" /\ Processed(t) /\ cycle[t].in.rec = RecNone

\* C9: retry() in phase recording or processing sets retry_queued, returns
\* the queued indicator and changes nothing else (the loop threads go on
\* where they are); in any other phase it sets retry_now, returns the
\* accepted indicator and leaves retry_queued unchanged.
C9_RetryGate ==
    [][Retry =>
         IF current_state \in {"recording", "processing"}
         THEN /\ retry_queued'
              /\ retry_ret' = "queued"
              /\ UNCHANGED <<retry_now, is_running, is_paused, stop_event,
                             pc, remaining, current_state>>
         ELSE /\ retry_now'
              /\ retry_ret' = "accepted"
              /\ UNCHANGED <<retry_queued, is_running, is_paused,
                             stop_event, pc, remaining, current_state>>]_vars

\* C9 witness: a retry was queued while a cycle is in its processing step
C9_Witness ==
    /\ retry_ret = "queued"
    /\ retry_queued
    /\ current_state = "processing"
    /\ \E t \in Threads : pc[t] = "processing"

\* C10: a countdown that ends while retry_now is set (retry() was accepted
\* during that countdown) resets retry_now before the next cycle starts.
C10_CountdownConsumesRetry ==
    [][\A t \in Threads :
         (pc[t] \in Countdown /\ retry_now /\ pc'[t] \notin Countdown) =>
            ~retry_now']_vars

\* C11: when a cycle has completed with retry_queued set (retry() returned
\* the queued indicator during the cycle), the loop goes straight to the
\* head of the next iteration, with no countdown and no phase 'waiting', and
\* clears retry_queued; the flag is a single boolean consumed by that one
\* step, so a cycle that completes with the flag clear skips no countdown.
C11_QueuedRetrySkipsOneCountdown ==
    [][\A t \in Threads :
         (pc[t] = "after" /\ pc'[t] # "after") =>
            IF retry_queued
            THEN /\ pc'[t] = "top"
                 /\ ~retry_queued'
                 /\ remaining'[t] = remaining[t]
                 /\ current_state' = current_state
            ELSE /\ pc'[t] \in {"cd_check", "finally"}
                 /\ ~retry_queued'
                 /\ pc'[t] = "cd_check" =>
                       (remaining'[t] = SleepTime /\
                        current_state' = "waiting")]_vars

\* C11 witness: the loop is back at its head straight from a processing
\* step (the phase was never set to 'waiting'), the queued retry consumed
C11_Witness ==
    \E t \in Threads :
       /\ pc[t] = "top"
       /\ current_state = "processing"
       /\ retry_ret = "queued"
       /\ ~retry_queued
       /\ is_running

GuardedOps ==
    {"mark_recorded", "mark_recognized", "mark_unrecognized",
     "mark_queueable", "mark_queued"}

MarkOps == GuardedOps \cup {"mark_failed"}

Predecessor(op) ==
    CASE op = "mark_recorded" -> "created"
      [] op = "mark_recognized" -> "recorded"
      [] op = "mark_unrecognized" -> "recorded"
      [] op = "mark_queueable" -> "recognized"
      [] op = "mark_queued" -> "queueable"

\* C13: mark_recorded, mark_recognized, mark_unrecognized, mark_queueable
\* or mark_queued called on a snippet that is not in the state the
\* operation requires (CREATED, RECORDED, RECORDED, RECOGNIZED, QUEUEABLE)
\* leaves the snippet as it was: same state, same track_string.
C13_OutOfOrderMarkIsNoOp ==
    (snip.op \in GuardedOps /\ snip.before.state # Predecessor(snip.op)) =>
       /\ snip.now.state = snip.before.state
       /\ snip.now.track_string = snip.before.track_string
       /\ snip.now = snip.before

\* C13 witness: mark_recognized was called on a snippet that already had a
\* track string and was past RECORDED, with another track as argument
C13_Witness ==
    /\ snip.op = "mark_recognized"
    /\ snip.before.state = "queueable"
    /\ snip.before.track_string \in Tracks
    /\ snip.arg \in Tracks \ {snip.before.track_string}

\* The transitions of SnippetState
SnippetEdges ==
    {<<"created", "recorded">>, <<"recorded", "recognized">>,
     <<"recorded", "unrecognized">>, <<"recognized", "queueable">>,
     <<"queueable", "queued">>}
       \cup {<<st, "failed">> : st \in SnippetStates}

\* C14: over any sequence of mark_X calls on a fresh snippet the state
\* changes only along CREATED-RECORDED, RECORDED-RECOGNIZED,
\* RECORDED-UNRECOGNIZED, RECOGNIZED-QUEUEABLE, QUEUEABLE-QUEUED or from
\* any state to FAILED; one call makes at most one transition; and a
\* snippet that is QUEUED has been in CREATED, RECORDED, RECOGNIZED,
\* QUEUEABLE, QUEUED in that order and in no other state.
C14_TransitionsFollowEdges ==
    [][snip'.op \in MarkOps =>
         /\ snip'.now.state # snip.now.state =>
               <<snip.now.state, snip'.now.state>> \in SnippetEdges
         /\ Len(snip'.visited) <= Len(snip.visited) + 1
         /\ snip'.now.state = "queued" =>
               snip'.visited =
                  <<"created", "recorded", "recognized", "queueable",
                    "queued">>]_vars

\* C14 witness: a snippet has gone all the way to QUEUED
C14_Witness ==
    /\ snip.now.state = "queued"
    /\ snip.op = "mark_queued"
    /\ snip.before.state = "queueable"

TerminalStates == {"failed", "unrecognized", "queued"}

\* C15 as stated: a snippet in FAILED, UNRECOGNIZED or QUEUED keeps its
\* state under every mark_X operation, mark_failed included, and
\* mark_failed moves every other state to FAILED.
C15_TerminalStatesAbsorbing ==
    /\ (snip.op \in MarkOps /\ snip.before.state \in TerminalStates) =>
          snip.now.state = snip.before.state
    /\ (snip.op = "mark_failed" /\ snip.before.state \notin TerminalStates)
          => snip.now.state = "failed"

\* C15 amended: mark_failed moves every state to FAILED, UNRECOGNIZED and
\* QUEUED included; a snippet in FAILED, UNRECOGNIZED or QUEUED keeps its
\* state under every other mark_X operation, so that FAILED is the only
\* state no mark_X operation leaves.
C15_TerminalExceptForMarkFailed ==
    /\ (snip.op \in GuardedOps /\ snip.before.state \in TerminalStates) =>
          snip.now.state = snip.before.state
    /\ snip.op = "mark_failed" => snip.now.state = "failed"
    /\ (snip.op \in MarkOps /\ snip.before.state = "failed") =>
          snip.now.state = "failed"

\* C15 witness: mark_failed was called on a QUEUED snippet
C15_Witness ==
    /\ snip.op = "mark_failed"
    /\ snip.before.state = "queued"
    /\ snip.now.state = "failed"

\* C16: whatever the outcome of a cycle, when it has ended the capture file
\* of its snippet does not exist and the file was deleted exactly once
\* during the cycle.
C16_CaptureFileDeletedOnce ==
    \A t \in Threads :
       cycle[t].kind # "none" =>
          /\ ~cycle[t].file
          /\ cycle[t].removes = 1

\* C17: every start_playback call of the controller passes volume 0,
\* whatever the track, the device, the duration and the configuration, the
\* configured preview volume included.
C17_PlaybackVolumeZero == play.called => play.args.volume = 0

\* C17 witness: a start_playback call was made under a configuration whose
\* preview volume is not 0
C17_Witness ==
    /\ play.called
    /\ play.cfg.volume_preview = 40
    /\ play.args.track_uri \in Tracks

\* C18: a get_and_activate_device call made while a device is cached and
\* less than 300 s have passed since the resolution that cached it (time t)
\* returns the cached id and name, calls neither client.devices() nor
\* transfer_playback, and leaves the cache and its time t as they are; a
\* call made 300 s or more after t calls client.devices(); and a
\* resolution that lists and returns a device caches that device with the
\* time of the call.
C18_DeviceCacheTtl ==
    svc.last.kind = "resolve" =>
       LET c == svc.last IN
       /\ c.pre.id # NoDevice =>
             IF c.at < c.pre.time + DeviceCacheTtl
             THEN /\ c.ret.id = c.pre.id
                  /\ c.ret.name = c.pre.name
                  /\ ~c.ret.listed
                  /\ c.ret.transfers = <<>>
                  /\ svc.cache = c.pre
             ELSE c.ret.listed
       /\ (c.ret.listed /\ c.ret.id # NoDevice) =>
             svc.cache = [id |-> c.ret.id, name |-> c.ret.name,
                          time |-> c.at]

\* C18 witness: a call 300 s after the resolution listed the devices again,
\* although the cached device had been returned from the cache 200 s after
\* the resolution
C18_Witness ==
    /\ svc.last.kind = "resolve"
    /\ svc.last.pre.id # NoDevice
    /\ svc.last.at = svc.last.pre.time + DeviceCacheTtl
    /\ svc.last.pre_hit = svc.last.pre.time + 2 * TickSeconds
    /\ svc.last.ret.listed

\* C19: a get_and_activate_device call that finds the cache invalid and
\* gets a listing considers the listed devices with volume control only;
\* with none of them it returns (None, None) and activates nothing;
\* otherwise its choice is the first of them whose name contains
\* preferred_name (a non-empty one), else the active one, else the first of
\* them; a chosen device that is not active is activated by
\* transfer_playback, and the chosen device is returned (unless that
\* transfer raised, which gives (None, None)).
C19_DeviceSelectionOrder ==
    (svc.last.kind = "resolve" /\ svc.last.ret.listed /\
     ~svc.last.api.devices_raises) =>
       LET L == svc.last.api.devices
           p == svc.last.preferred_name
           ret == svc.last.ret
           Eligible == {k \in 1..Len(L) : L[k].supports_volume}
           Pref == {k \in Eligible : p # <<>> /\ Contains(p, L[k].name)}
           Act == {k \in Eligible : L[k].is_active}
           From == IF Pref # {} THEN Pref
                   ELSE IF Act # {} THEN Act ELSE Eligible
           k0 == CHOOSE k \in From : \A j \in From : k <= j
       IN
       IF Eligible = {}
       THEN /\ ret.id = NoDevice
            /\ ret.name = NoName
            /\ ret.transfers = <<>>
       ELSE /\ ~L[k0].is_active => ret.transfers = <<L[k0].id>>
            /\ ret.transfers \in {<<>>, <<L[k0].id>>}
            /\ IF ret.transfers # <<>> /\ svc.last.api.transfer_raises
               THEN ret.id = NoDevice /\ ret.name = NoName
               ELSE ret.id = L[k0].id /\ ret.name = L[k0].name

\* C19 witness: with an active device and an inactive preferred device
\* listed after a device without volume control, the preferred one was
\* chosen and activated
C19_Witness ==
    /\ svc.last.kind = "resolve"
    /\ svc.last.ret.listed
    /\ svc.last.preferred_name = <<3>>
    /\ Len(svc.last.api.devices) = 3
    /\ ~svc.last.api.devices[1].supports_volume
    /\ svc.last.api.devices[2].supports_volume
    /\ svc.last.api.devices[2].is_active
    /\ svc.last.api.devices[3].supports_volume
    /\ svc.last.ret.id = 3
    /\ svc.last.ret.transfers = <<3>>

\* C20: is_interruption_allowed never raises; it returns allowed = false
\* exactly when current_playback() returned a session whose is_playing is
\* True; it returns allowed = true with no session, with a session that is
\* not playing, and when current_playback() raises, in which case the
\* message carries the text of the exception.
C20_InterruptionPolicy ==
    svc.last.kind = "interruption" =>
       LET pb == svc.last.pb
           ret == svc.last.ret
       IN
       /\ ~ret.raised
       /\ ~ret.allowed <=> (pb.kind = "session" /\ pb.is_playing = "true")
       /\ pb.kind = "none" => ret.allowed
       /\ (pb.kind = "session" /\ pb.is_playing = "false") => ret.allowed
       /\ pb.kind = "raises" =>
             /\ ret.allowed
             /\ ret.message = <<"could_not_check", pb.reason>>

\* C20 witness: the query of the session failed and the answer was allowed
C20_Witness ==
    /\ svc.last.kind = "interruption"
    /\ svc.last.pb.kind = "raises"
    /\ svc.last.ret.allowed

\* C21: start_playback never raises; it issues the playback start on the
\* given device, track and position first and the volume call second; it
\* returns true exactly when neither call raised; and when the playback
\* start raised the volume call is not made.
C21_StartPlaybackNeverRaises ==
    svc.last.kind = "playback" =>
       LET c == svc.last
           calls == c.ret.calls
       IN
       /\ ~c.ret.raised
       /\ Len(calls) >= 1
       /\ calls[1] = [op |-> "start_playback", device_id |-> c.device_id,
                      uri |-> c.track, position_ms |-> c.position_ms]
       /\ c.ret.ret <=> (~c.api.start_raises /\ ~c.api.volume_raises)
       /\ IF c.api.start_raises
          THEN Len(calls) = 1
          ELSE /\ Len(calls) = 2
               /\ calls[2] = [op |-> "volume", device_id |-> c.device_id,
                              volume |-> c.volume]

\* C21 witness: the playback started and the volume call raised
C21_Witness ==
    /\ svc.last.kind = "playback"
    /\ ~svc.last.api.start_raises
    /\ svc.last.api.volume_raises
    /\ ~svc.last.ret.ret

\* C22: for a recognized track, a search whose transport call raises and a
\* search whose result fails validation end the cycle exactly as a search
\* with no result does, for the same other collaborators and the same
\* queue: same result, same snippet state, same calls, same UI update, same
\* queue; and no exception leaves the cycle.
C22_SearchFailureIsAbsence ==
    \A t \in Threads :
       (Processed(t) /\ cycle[t].in.rec \in Tracks /\
        cycle[t].in.search \in {"invalid", "raises"}) =>
          LET e == process_recorded_snippet(
                      mark_recorded(NewSnippet), cycle[t].q_before,
                      [cycle[t].in EXCEPT !.search = "empty"])
          IN  /\ cycle[t].ret # "raise"
              /\ cycle[t].ret = e.ret
              /\ cycle[t].state = e.snip.state
              /\ cycle[t].calls = e.calls
              /\ cycle[t].ui = e.ui
              /\ cycle[t].q_after = e.queue
              /\ "device" \notin cycle[t].calls
              /\ "playback" \notin cycle[t].calls

\* C22 witness: a cycle whose search raised in the transport has ended
C22_Witness ==
    \E t \in Threads :
       /\ pc[t] = "after"
       /\ Processed(t)
       /\ cycle[t].in.rec \in Tracks
       /\ cycle[t].in.search = "raises"
       /\ cycle[t].ret = "false"

\* C23: for every track duration d and configured offset o the position
\* passed to start_playback is max(0, d - o): never negative, d - o when
\* d >= o, and 0 when d < o.
C23_PositionClamped ==
    play.called =>
       LET d == play.duration_ms
           o == play.cfg.playback_offset_ms
           pos == play.args.position_ms
       IN  /\ pos >= 0
           /\ d >= o => pos = d - o
           /\ d < o => pos = 0

\* C23 witness: a start_playback call for a track shorter than the offset
C23_Witness ==
    /\ play.called
    /\ play.duration_ms < play.cfg.playback_offset_ms
    /\ play.args.position_ms = 0

\* The settings the claim calls invalid
InvalidSettings ==
    \/ settings.snippet_duration < 1
    \/ settings.snippet_duration > 300
    \/ settings.interval_duration < settings.snippet_duration
    \/ ~settings.folder_ok

\* C24: with a snippet duration outside 1..300, an interval smaller than
\* the snippet duration or an invalid output folder, run_loop returns from
\* the failed initialize(): is_running is never set to true and no loop
\* thread ever goes past the initialization, so that no cycle starts.
C24_InvalidSettingsNeverStart ==
    [][InvalidSettings =>
         /\ ~is_running'
         /\ \A t \in Threads :
               /\ pc'[t] \in {"init", "done", "none"}
               /\ (pc[t] = "init" /\ pc'[t] # "init") => pc'[t] = "done"
         /\ UNCHANGED <<queue, cycle, current_state>>]_vars

\* C24 witness: run_loop has returned because the interval is smaller than
\* an otherwise valid snippet duration
C24_Witness ==
    /\ pc[1] = "done"
    /\ ~is_running
    /\ settings.snippet_duration = 300
    /\ settings.interval_duration < settings.snippet_duration
    /\ settings.folder_ok

\* A cycle has ended because record_audio or recognize() raised
CollaboratorRaised(c) ==
    \/ c.kind = "capture_failed"
    \/ c.kind = "processed" /\ c.in.rec = RecRaise

\* C25: when record_audio or recognize() raises, the snippet ends FAILED,
\* the cycle returns false (the exception does not leave it), no search,
\* interruption, device or playback call was made and the window is
\* unchanged; the loop thread goes on to the end-of-cycle scheduling, which
\* starts the full countdown unless a retry is queued or the loop limit is
\* reached.
C25_CollaboratorExceptionEndsCycle ==
    [][\A t \in Threads :
         /\ (pc[t] \in {"capture", "processing"} /\ pc'[t] # pc[t] /\
             CollaboratorRaised(cycle'[t])) =>
               /\ pc'[t] = "after"
               /\ cycle'[t].state = "failed"
               /\ cycle'[t].ret = "false"
               /\ cycle'[t].calls \subseteq {"recognize"}
               /\ cycle'[t].ui = "none"
               /\ queue' = queue
         /\ (pc[t] = "after" /\ pc'[t] # "after" /\
             CollaboratorRaised(cycle[t])) =>
               IF retry_queued THEN pc'[t] = "top"
               ELSE IF total_loops[t] # NoLimit /\ cnt'[t] >= total_loops[t]
               THEN pc'[t] = "finally"
               ELSE /\ pc'[t] = "cd_check"
                    /\ remaining'[t] = SleepTime
                    /\ current_state' = "waiting"]_vars

\* C25 witness: a cycle whose recognition raised has just ended with the
\* loop still running
C25_Witness ==
    /\ pc[1] = "after"
    /\ cycle[1].kind = "processed"
    /\ cycle[1].in.rec = RecRaise
    /\ cycle[1].state = "failed"
    /\ is_running

\* C26: when, for a recognized and found track that may interrupt and is not
\* in the recent window, no device resolves or start_playback returns
\* false, the cycle returns false, the UI gets the track as blocked, the
\* window is unchanged and the snippet is not QUEUED; and without a device
\* start_playback is not called.
C26_NoDeviceOrPlaybackFailure ==
    \A t \in Threads :
       (/\ FoundTrack(t)
        /\ cycle[t].in.allowed
        /\ ~InSeq(cycle[t].in.rec, last_5_songs(cycle[t].q_before))
        /\ (~cycle[t].in.device \/ ~cycle[t].in.play)) =>
          /\ cycle[t].ret = "false"
          /\ cycle[t].ui = "blocked"
          /\ cycle[t].q_after = cycle[t].q_before
          /\ cycle[t].state # "queued"
          /\ (~cycle[t].in.device => "playback" \notin cycle[t].calls)

\* The recognition of that cycle returned a track and the search returned
\* None for it
SearchAbsent(t) ==
    /\ Processed(t)
    /\ cycle[t].in.rec \in Tracks
    /\ cycle[t].in.search # "hit"

\* C27: when search_track returns None for a recognized track, the cycle
\* makes no get_and_activate_device and no start_playback call, leaves the
\* recent window as it was and returns false.
C27_SearchAbsenceStopsBeforeDevice ==
    \A t \in Threads :
       SearchAbsent(t) =>
          /\ "search" \in cycle[t].calls
          /\ "device" \notin cycle[t].calls
          /\ "playback" \notin cycle[t].calls
          /\ cycle[t].q_after = cycle[t].q_before
          /\ queue = cycle[t].q_before
          /\ cycle[t].ret = "false"

\* C27 witness: a cycle has just ended in which the recognized track could
\* have interrupted the session and the search found nothing
C27_Witness ==
    /\ pc[1] = "after"
    /\ SearchAbsent(1)
    /\ cycle[1].in.search = "empty"
    /\ cycle[1].in.allowed

\* C28: when search_track returns None the cycle ends at the search: the
\* interruption check is not made and the snippet stays RECOGNIZED; and a
\* snippet is QUEUEABLE only in a cycle whose search found a match, whose
\* interruption was allowed and whose track was not in the recent window.
C28_SearchAbsenceEndsAtSearch ==
    \A t \in Threads :
       /\ SearchAbsent(t) =>
             /\ "interruption" \notin cycle[t].calls
             /\ cycle[t].state = "recognized"
       /\ (Processed(t) /\ cycle[t].state = "queueable") =>
             /\ cycle[t].in.search = "hit"
             /\ cycle[t].in.allowed
             /\ ~InSeq(cycle[t].in.rec, last_5_songs(cycle[t].q_before))

\* C29: a stop() called while a cycle is past its capture does not abort
\* that cycle: the loop thread stays in the cycle until
\* _process_recorded_snippet has returned to run_loop, the calls the
\* collaborators' answers lead to are all made (with every collaborator
\* succeeding for a track outside the recent window that includes
\* start_playback, after stop() was called), and only then can the thread
\* leave the loop.
C29_StopDoesNotAbortProcessing ==
    [][\A t \in Threads :
         (pc[t] = "processing" /\ ~is_running) =>
            /\ pc'[t] \in {"processing", "after"}
            /\ pc'[t] = "after" =>
                  /\ cycle'[t].kind = "processed"
                  /\ "recognize" \in cycle'[t].calls
                  /\ (cycle'[t].in.rec \in Tracks) =>
                        "search" \in cycle'[t].calls
                  /\ (/\ cycle'[t].in.rec \in Tracks
                      /\ cycle'[t].in.search = "hit"
                      /\ cycle'[t].in.allowed
                      /\ cycle'[t].in.device
                      /\ ~InSeq(cycle'[t].in.rec,
                                last_5_songs(cycle'[t].q_before))) =>
                        "playback" \in cycle'[t].calls]_vars

\* C30: when a start request follows a stop() that has returned, the run it
\* starts begins (is_running = True and _stop_event.clear() done, the while
\* loop about to be entered) with is_running true and the cancellation
\* token clear, so that its first pass of the while loop starts a capture
\* that the earlier stop() does not cancel.
C30_RestartBeginsClean ==
    [][\A t \in Threads :
         (t \in restarted /\ pc[t] = "clear" /\ pc'[t] # "clear") =>
            /\ is_running'
            /\ ~stop_event']_vars

\* C31: the device cache and the recent-queue list are written only by the
\* loop thread: no step of a request handler changes either of them.
C31_OnlyLoopWritesCacheAndQueue ==
    [][(dev'.call["handler"] # dev.call["handler"]) =>
          /\ dev'.cache = dev.cache
          /\ queue' = queue]_vars

\* C40: every pair that get_and_activate_device returns is (None, None) or
\* the id and the name of one and the same device, also when the loop
\* thread and a request handler are inside the function at once.
C40_ReturnedPairNamesOneDevice ==
    \A c \in Callers :
       dev.call[c].pc = "ret" =>
          \/ dev.call[c].id = NoDevice /\ dev.call[c].name = NoName
          \/ /\ dev.call[c].id \in DeviceIds
             /\ dev.call[c].name = DeviceName(dev.call[c].id)

\* C32: record_audio tests the token before each stream.read; when it finds
\* the token set it reads no more, creates no output file, not even a
\* partial one, releases the stream and returns the interrupted outcome;
\* and on every way out of the function, an exception included, a stream
\* that was opened has been closed.
C32_CancelledCaptureWritesNoFile ==
    /\ rec.pc = "read" => ~rec.stopped_early
    /\ rec.stopped_early =>
          /\ rec.file = "absent"
          /\ rec.pc \notin {"read", "wave_open", "write"}
          /\ rec.pc = "out" => (rec.ret = "interrupted" /\
                                rec.stream = "closed")
    /\ rec.pc = "out" => rec.stream # "open"

\* C33: every cycle that gives the UI a track (as blocked or as played) also
\* makes a record_snippet call on the analytics database for it.
C33_SurfacedTrackIsRecorded ==
    \A t \in Threads :
       (Processed(t) /\ cycle[t].ui \in {"blocked", "played"}) =>
          "analytics" \in cycle[t].calls

\* Two track dicts are the same song for the history
SameSong(a, b) == a.name = b.name /\ a.artist = b.artist

\* C34: after every update_current_track call the history has at most 20
\* entries and no two adjacent entries with the same name and artist; an
\* update with a track makes it the current track and, unless it is the
\* same song as the newest entry, puts it in front of the older entries,
\* which keep their order; an update that is the same song as the newest
\* entry, and a clearing update, leave the history as it was, the clearing
\* update setting the current track to none.
C34_HistoryBoundedNewestFirst ==
    [][LET a  == hist'.arg
           h  == hist.track_history
           h2 == hist'.track_history
       IN
       /\ Len(h2) <= 20
       /\ \A i \in 1..(Len(h2) - 1) : ~SameSong(h2[i], h2[i + 1])
       /\ IF a = NoTrackData
          THEN hist'.current_track = NoTrackData /\ h2 = h
          ELSE /\ hist'.current_track = a
               /\ IF h # <<>> /\ SameSong(h[1], a)
                  THEN h2 = h
                  ELSE /\ h2[1] = a
                       /\ Len(h2) = IF Len(h) < 20 THEN Len(h) + 1 ELSE 20
                       /\ SubSeq(h2, 2, Len(h2)) =
                             SubSeq(h, 1, Len(h2) - 1)]_vars

\* C34 witness: the history is full, and an update with the same song as
\* its newest entry has replaced the current track without adding an entry
C34_Witness ==
    /\ Len(hist.track_history) = 20
    /\ hist.arg # NoTrackData
    /\ hist.current_track = hist.arg
    /\ hist.current_track # hist.track_history[1]
    /\ SameSong(hist.current_track, hist.track_history[1])

\* C35: after every sequence of successful queues the test on the last five
\* entries of the queue list answers, for every track, what membership in a
\* FIFO of capacity 5 fed the same pushes answers (the FIFO is those last
\* five entries), and the entries of the window are pairwise distinct.
C35_QueueTailIsFifoWindow ==
    /\ Len(dq.fifo) <= 5
    /\ last_5_songs(dq.queue) = dq.fifo
    /\ \A x \in DedupTracks :
          InSeq(x, last_5_songs(dq.queue)) <=> InSeq(x, dq.fifo)
    /\ \A i, j \in 1..Len(dq.fifo) : i # j => dq.fifo[i] # dq.fifo[j]
    /\ dq.last.queued => dq.fifo[Len(dq.fifo)] = dq.last.track

\* C35 witness: the list has outgrown the window and a track that left the
\* window has been queued a second time
C35_Witness ==
    /\ Len(dq.queue) > 5
    /\ dq.last.queued
    /\ dq.queue[Len(dq.queue)] = dq.queue[1]
    /\ Len(dq.fifo) = 5

C37_NoRetryFlagAtCapture ==
    [][\A t \in Threads :
         (pc[t] # "capture" /\ pc'[t] = "capture" /\
          retry_at = "countdown") => ~retry_now']_vars

\* C38: retry() returns the queued indicator, and sets retry_queued, only
\* while a loop thread is inside the capture or the processing step of a
\* cycle (or has just left it and not yet tested the flag): not when the
\* loop has exited, is paused or is counting down, where no cycle is in
\* flight to consume the flag.
C38_QueuedOnlyDuringCycle ==
    [][((retry_queued' /\ ~retry_queued) \/
        (retry_ret' = "queued" /\ retry_ret # "queued")) =>
          \E t \in Threads : pc[t] \in {"capture", "processing",
                                          "after"}]_vars

\* C39: a run_loop that was given a total recording time and is not stopped
\* has run, when it leaves the loop after a cycle that returned, at least
\* one and at most max(1, total_loops) cycles, however retry, pause and
\* resume requests interleave.
C39_CyclesWithinLimit ==
    \A t \in Threads :
       (/\ pc[t] = "finally"
        /\ total_loops[t] # NoLimit
        /\ ~stopped /\ stop_pc = "idle"
        /\ cycle[t].ret # "raise") =>
          /\ cnt[t] >= 1
          /\ cnt[t] <= Max(1, total_loops[t])

====
